---------------------------- MODULE Spec2Model ----------------------------
(***************************************************************************)
(* The freestyle job controller of the workflow task orchestrator          *)
(* (FreestyleJobCtl: Run = prepare; run; wait; complete), with the cluster *)
(* resources it creates and deletes, the asynchronous cleanup goroutine    *)
(* that complete schedules, and the Variable Context it writes.            *)
(*                                                                         *)
(* A Run is modelled as a sequence of steps, one per call that leaves the  *)
(* controller (step controller, cluster API, log store): these calls are   *)
(* the points where the cleanup goroutine of another Run can interleave.   *)
(***************************************************************************)
EXTENDS Integers, Sequences, FiniteSets, TLC

(***************************************************************************)
(* Bounds of the model.                                                    *)
(***************************************************************************)
\* number of stale configmaps / workloads with the job's label set that may
\* exist in the target namespace before the first Run
MaxStale == 1
\* length of the outputs list read from the pod termination message
MaxOutputs == 2

\* number of pieces of a docker host string
MaxHostLen == 5

\* number of environment variables of a job
MaxEnvs == 3

\* number of stages of a workflow, and of jobs of all its stages together
MaxStages == 3
MaxJobs == 3
\* the latest second the wall clock shows
MaxClock == 2
\* the ingresses of one API version in a namespace
MaxIngresses == 2

(***************************************************************************)
(* Program constants.                                                      *)
(***************************************************************************)
DefaultTimeout == 600
MinRequest == "min"
LocalClusterID == "local"
AttachedClusterNamespace == "koderover-agent"
ProcessNamespace == "zadig"
KoderoverAgentNamespace == "koderover-agent"
\* a string is modelled as the sequence of its pieces, cut so that every
\* string the code searches for is a whole number of pieces
DindServer == <<"dind">>

StatusRunning == "running"
StatusFailed == "failed"
StatusPassed == "passed"
StatusTimeout == "timeout"
StatusCancelled == "cancelled"
StatusReject == "reject"

\* the statuses waitJobEndWithFile returns
WaitOutcomes == {StatusPassed, StatusFailed, StatusTimeout, StatusCancelled}
TerminalStatuses == {StatusPassed, StatusFailed, StatusCancelled, StatusTimeout, StatusReject}

(***************************************************************************)
(* Inputs.                                                                 *)
(***************************************************************************)
\* the first execution of the job and a later one with the same label set
\* (same workflow name, task id, job type and job name: a restarted task)
Runs == {"first", "later"}

TimeoutInputs == {0, 30}
RequestInputs == {"", "high"}
ClusterInputs == {"", LocalClusterID, "remote"}
JobNames == {"build"}
OutputNames == {"IMAGE", "VERSION"}
OutputValues == {"v1", "v2"}
ErrTexts == {"err"}

\* cluster resources carrying the job's label set; names are generated, so
\* every creation yields a new resource
StaleResources == {[owner |-> "stale", n |-> i] : i \in 1..MaxStale}
Own(r) == [owner |-> r, n |-> 0]

VARIABLES
    pc,            \* pc[r]: position of Run r of the controller
    cpc,           \* cpc[r]: position of the cleanup goroutine of Run r
    job,           \* job[r]: c.job (Name, Status, Error, EndTime)
    jobTaskSpec,   \* jobTaskSpec[r]: c.jobTaskSpec.Properties
    kubeclient,    \* kubeclient[r]: c.kubeclient ("nil" until resolved)
    outputs,       \* outputs[r]: the outputs read by complete
    configMaps,    \* configmaps with the label set in the target namespace
    workloads,     \* workloads (jobs) with the label set in the namespace
    globalContext, \* the Variable Context of the task: key -> value
    calls,         \* calls[r]: the calls Run r made, in order
    workflowCtx,   \* the WorkflowTaskCtx handed to BuildJobExcutorContext
    jobCtx,        \* the JobContext BuildJobExcutorContext returned
    counter,       \* the sequence counter of the workflow (GetNextSeq)
    clock,         \* the wall clock, in seconds
    store,         \* the persisted workflow tasks
    call,          \* call[c]: one call of CreateWorkflowTaskV4
    cloned,        \* what CloneWorkflowTaskV4 returned last
    approval,      \* a call of ApproveStage
    ingresses      \* a call of ListIngressesFormat

\* the state of the job controller
ctlVars == <<pc, cpc, job, jobTaskSpec, kubeclient, outputs, configMaps,
             workloads, globalContext, calls>>
\* the state of the job context builder
buildVars == <<workflowCtx, jobCtx>>
\* the state of the task materializer
taskVars == <<counter, clock, store, call, cloned>>

\* the state of the calls of ApproveStage and ListIngressesFormat
requestVars == <<approval, ingresses>>

vars == <<pc, cpc, job, jobTaskSpec, kubeclient, outputs, configMaps,
          workloads, globalContext, calls, workflowCtx, jobCtx,
          counter, clock, store, call, cloned, approval, ingresses>>

(***************************************************************************)
(* Helpers.                                                                *)
(***************************************************************************)
\* time.Now().Unix()
Now == 1

\* one call that left the controller: what was called, in which namespace,
\* and whether it returned without error
Call(op, ns, ok) == [op |-> op, ns |-> ns, ok |-> ok]

Logged(r, op, ns, ok) == calls' = [calls EXCEPT ![r] = Append(@, Call(op, ns, ok))]

\* c.job.Status = config.StatusFailed; c.job.Error = msg
Fail(j, msg) == [j EXCEPT !.Status = StatusFailed, !.Error = msg]

\* fmt.Sprintf("<prefix>: %v", err)
Sprintf(prefix, e) == prefix \o ": " \o e

\* variant: the key without the "workflow" prefix, $(jobName.outputName)
OutputKey_NoPrefix(jobName, outputName) == <<jobName, outputName>>

\* strings.Join([]string{"workflow", jobName, outputName}, ".")
OutputKey(jobName, outputName) == <<"workflow", jobName, outputName>>

\* the Variable Context with no key set
EmptyContext == [k \in {} |-> ""]

\* WorkflowTaskCtx.GlobalContextSet(key, value)
GlobalContextSet(ctx, key, value) ==
    [k \in DOMAIN ctx \cup {key} |-> IF k = key THEN value ELSE ctx[k]]

\* for _, output := range outputs { GlobalContextSet(key, output.Value) }
RECURSIVE WriteOutputs(_, _, _)
WriteOutputs(ctx, jobName, outs) ==
    IF outs = <<>> THEN ctx
    ELSE WriteOutputs(GlobalContextSet(ctx, OutputKey(jobName, Head(outs).Name), Head(outs).Value),
                      jobName, Tail(outs))

\* the outputs lists getJobOutput can return: the names the executor lists,
\* each with the content of the output file of that name
SeqsUpTo(S, n) == UNION {[1..k -> S] : k \in 0..n}
OutputLists ==
    {[i \in DOMAIN names |-> [Name |-> names[i], Value |-> val[names[i]]]] :
        names \in SeqsUpTo(OutputNames, MaxOutputs), val \in [OutputNames -> OutputValues]}

\* ensureDeleteConfigMap / ensureDeleteJob: all resources of the kind with
\* the label set are gone when the call succeeds; any part of them may be
\* left when it fails
AfterDelete(resources, ok) == IF ok THEN {{}} ELSE SUBSET resources

\* strings.Contains(s, sub)
Contains(s, sub) ==
    \E i \in 0..(Len(s) - Len(sub)) : SubSeq(s, i + 1, i + Len(sub)) = sub

\* strings.Index(s, sub), counted in pieces, for a sub that s contains
Index(s, sub) ==
    CHOOSE i \in 0..(Len(s) - Len(sub)) :
        /\ SubSeq(s, i + 1, i + Len(sub)) = sub
        /\ \A j \in 0..(i - 1) : SubSeq(s, j + 1, j + Len(sub)) # sub

\* strings.Replace(s, old, new, 1): the first old becomes new
Replace(s, old, new) ==
    IF Contains(s, old)
    THEN SubSeq(s, 1, Index(s, old)) \o new \o SubSeq(s, Index(s, old) + Len(old) + 1, Len(s))
    ELSE s

\* the pieces docker host strings are made of, and the host strings
HostPieces == {"tcp://dind-0", ".", "dind", ProcessNamespace, KoderoverAgentNamespace, ":2375"}
HostStrings == SeqsUpTo(HostPieces, MaxHostLen)

\* the docker hosts dockerhosts.GetBestHost can select
BestHosts ==
    {<<"tcp://dind-0", ".", "dind", ":2375">>,
     <<"tcp://dind-0", ".", "dind", ".", ProcessNamespace, ":2375">>}

\* run, lines 141-161: the docker host run leaves in the job properties
RewriteDockerHost(host, clusterID) ==
    LET replaceDindServer == <<".">> \o DindServer
        namespace == <<ProcessNamespace>>
    IN  IF clusterID # "" /\ clusterID # LocalClusterID
        THEN IF Contains(host, namespace)
             THEN Replace(host, namespace, <<KoderoverAgentNamespace>>)
             ELSE Replace(host, replaceDindServer,
                          replaceDindServer \o <<".">> \o <<KoderoverAgentNamespace>>)
        ELSE IF ~Contains(host, namespace)
             THEN Replace(host, replaceDindServer,
                          replaceDindServer \o <<".">> \o namespace)
             ELSE <<>>

\* a nil pointer to a document
Nil == [Nil |-> TRUE]

\* no job context is being built
NoBuild ==
    /\ workflowCtx = Nil
    /\ jobCtx = Nil

\* neither ApproveStage nor ListIngressesFormat is called
NoRequests ==
    /\ approval = Nil
    /\ ingresses = Nil

\* no workflow task is being created
NoTasks ==
    /\ counter = 0
    /\ clock = 0
    /\ store = <<>>
    /\ call = <<>>
    /\ cloned = Nil

(***************************************************************************)
(* Init: the state after NewFreestyleJobCtl, for each Run.                 *)
(***************************************************************************)
Init ==
    /\ pc = [r \in Runs |-> IF r = "first" THEN "prepare" ELSE "idle"]
    /\ cpc = [r \in Runs |-> "none"]
    /\ \E name \in JobNames :
         /\ job = [r \in Runs |-> [Name |-> name, Status |-> StatusRunning, Error |-> "", EndTime |-> 0]]
         /\ globalContext \in {EmptyContext,
                                (<<"workflow", "other", "IMAGE">> :> "old"),
                                (<<"workflow", name, "IMAGE">> :> "old")}
    /\ \E t \in TimeoutInputs, rq \in RequestInputs, cl \in ClusterInputs :
         jobTaskSpec = [r \in Runs |->
            [Timeout |-> t, ResourceRequest |-> rq, ClusterID |-> cl, Namespace |-> "",
             DockerHost |-> <<>>]]
    /\ kubeclient = [r \in Runs |-> "nil"]
    /\ outputs = [r \in Runs |-> <<>>]
    /\ configMaps \in SUBSET StaleResources
    /\ workloads \in SUBSET StaleResources
    /\ calls = [r \in Runs |-> <<>>]
    /\ NoBuild
    /\ NoTasks
    /\ NoRequests

(***************************************************************************)
(* FreestyleJobCtl.Run: prepare, run, wait, complete.                      *)
(***************************************************************************)
\* Run returns: c.job is left as it is, no further step of the controller
Returned(r) == pc' = [pc EXCEPT ![r] = "returned"]

\* the deferred func of complete: go func() { ensureDeleteJob; ensureDeleteConfigMap }
ScheduleCleanup(r) == cpc' = [cpc EXCEPT ![r] = "ensureDeleteJob"]

\* the defaults prepare applies to the job properties
WithDefaults(p) ==
    [p EXCEPT !.Timeout = IF @ <= 0 THEN DefaultTimeout ELSE @,
              !.ResourceRequest = IF @ = "" THEN MinRequest ELSE @,
              !.ClusterID = IF @ = "" THEN LocalClusterID ELSE @]

\* variant: Run goes on to run although prepare returned an error
prepare_ErrorIgnored(r) ==
    /\ pc[r] = "prepare"
    /\ jobTaskSpec' = [jobTaskSpec EXCEPT ![r] = WithDefaults(@)]
    /\ \E ok \in BOOLEAN :
         /\ Logged(r, "PrepareSteps", jobTaskSpec[r].Namespace, ok)
         /\ IF ok
            THEN job' = job
            ELSE \E e \in ErrTexts : job' = [job EXCEPT ![r] = Fail(@, e)]
    /\ pc' = [pc EXCEPT ![r] = "getClients"]
    /\ UNCHANGED <<cpc, kubeclient, outputs, configMaps, workloads, globalContext>>

\* variant: the defaults are applied once PrepareSteps has succeeded
prepare_DefaultsAfterSteps(r) ==
    /\ pc[r] = "prepare"
    /\ \E ok \in BOOLEAN :
         /\ Logged(r, "PrepareSteps", jobTaskSpec[r].Namespace, ok)
         /\ IF ok
            THEN /\ pc' = [pc EXCEPT ![r] = "getClients"]
                 /\ jobTaskSpec' = [jobTaskSpec EXCEPT ![r] = WithDefaults(@)]
                 /\ job' = job
            ELSE /\ \E e \in ErrTexts : job' = [job EXCEPT ![r] = Fail(@, e)]
                 /\ jobTaskSpec' = jobTaskSpec
                 /\ Returned(r)
    /\ UNCHANGED <<cpc, kubeclient, outputs, configMaps, workloads, globalContext>>

\* prepare: defaults, then stepcontroller.PrepareSteps
prepare(r) ==
    /\ pc[r] = "prepare"
    /\ jobTaskSpec' = [jobTaskSpec EXCEPT ![r] = WithDefaults(@)]
    /\ \E ok \in BOOLEAN :
         /\ Logged(r, "PrepareSteps", jobTaskSpec[r].Namespace, ok)
         /\ IF ok
            THEN /\ pc' = [pc EXCEPT ![r] = "getClients"]
                 /\ job' = job
            ELSE /\ \E e \in ErrTexts : job' = [job EXCEPT ![r] = Fail(@, e)]
                 /\ Returned(r)
    /\ UNCHANGED <<cpc, kubeclient, outputs, configMaps, workloads, globalContext>>

\* variant: a namespace given with the job is kept
runGetClients_KeepsGiven(r) ==
    /\ pc[r] = "getClients"
    /\ LET given == jobTaskSpec[r].Namespace
           local == IF given = "" THEN ProcessNamespace ELSE given
           attached == IF given = "" THEN AttachedClusterNamespace ELSE given
       IN  IF jobTaskSpec[r].ClusterID = LocalClusterID
           THEN /\ jobTaskSpec' = [jobTaskSpec EXCEPT ![r].Namespace = local]
                /\ kubeclient' = [kubeclient EXCEPT ![r] = "local"]
                /\ pc' = [pc EXCEPT ![r] = "GetBestHost"]
                /\ UNCHANGED <<job, calls>>
           ELSE /\ jobTaskSpec' = [jobTaskSpec EXCEPT ![r].Namespace = attached]
                /\ \E ok \in BOOLEAN :
                     /\ Logged(r, "GetK8sClients", attached, ok)
                     /\ IF ok
                        THEN /\ kubeclient' = [kubeclient EXCEPT ![r] = jobTaskSpec[r].ClusterID]
                             /\ pc' = [pc EXCEPT ![r] = "GetBestHost"]
                             /\ job' = job
                        ELSE /\ \E e \in ErrTexts :
                                  job' = [job EXCEPT ![r] = [Fail(@, e) EXCEPT !.EndTime = Now]]
                             /\ Returned(r)
                             /\ kubeclient' = kubeclient
    /\ UNCHANGED <<cpc, outputs, configMaps, workloads, globalContext>>

\* run, lines 113-133: the namespace and the cluster clients
runGetClients(r) ==
    /\ pc[r] = "getClients"
    /\ IF jobTaskSpec[r].ClusterID = LocalClusterID
       THEN /\ jobTaskSpec' = [jobTaskSpec EXCEPT ![r].Namespace = ProcessNamespace]
            /\ kubeclient' = [kubeclient EXCEPT ![r] = "local"]
            /\ pc' = [pc EXCEPT ![r] = "GetBestHost"]
            /\ UNCHANGED <<job, calls>>
       ELSE /\ jobTaskSpec' = [jobTaskSpec EXCEPT ![r].Namespace = AttachedClusterNamespace]
            /\ \E ok \in BOOLEAN :
                 /\ Logged(r, "GetK8sClients", AttachedClusterNamespace, ok)
                 /\ IF ok
                    THEN /\ kubeclient' = [kubeclient EXCEPT ![r] = jobTaskSpec[r].ClusterID]
                         /\ pc' = [pc EXCEPT ![r] = "GetBestHost"]
                         /\ job' = job
                    ELSE /\ \E e \in ErrTexts :
                              job' = [job EXCEPT ![r] = [Fail(@, e) EXCEPT !.EndTime = Now]]
                         /\ Returned(r)
                         /\ kubeclient' = kubeclient
    /\ UNCHANGED <<cpc, outputs, configMaps, workloads, globalContext>>

\* run, lines 135-138: the docker host the selector picks for the cluster
runGetBestHost(r) ==
    /\ pc[r] = "GetBestHost"
    /\ \E h \in BestHosts : jobTaskSpec' = [jobTaskSpec EXCEPT ![r].DockerHost = h]
    /\ pc' = [pc EXCEPT ![r] = "rewriteDockerHost"]
    /\ UNCHANGED <<cpc, job, kubeclient, outputs, configMaps, workloads, globalContext, calls>>

\* run, lines 141-161: the namespace is written into the docker host
runRewriteDockerHost(r) ==
    /\ pc[r] = "rewriteDockerHost"
    /\ jobTaskSpec' = [jobTaskSpec EXCEPT
            ![r].DockerHost = RewriteDockerHost(@, jobTaskSpec[r].ClusterID)]
    /\ pc' = [pc EXCEPT ![r] = "marshal"]
    /\ UNCHANGED <<cpc, job, kubeclient, outputs, configMaps, workloads, globalContext, calls>>

\* run, lines 163-170: yaml.Marshal(BuildJobExcutorContext(...))
runMarshal(r) ==
    /\ pc[r] = "marshal"
    /\ \E ok \in BOOLEAN :
         /\ Logged(r, "yaml.Marshal", jobTaskSpec[r].Namespace, ok)
         /\ IF ok
            THEN /\ pc' = [pc EXCEPT ![r] = "ensureDeleteConfigMap"]
                 /\ job' = job
            ELSE /\ \E e \in ErrTexts :
                      job' = [job EXCEPT ![r] = Fail(@, Sprintf("cannot Jobexcutor.Context data", e))]
                 /\ Returned(r)
    /\ UNCHANGED <<cpc, jobTaskSpec, kubeclient, outputs, configMaps, workloads, globalContext>>

\* variant: the configmap is created although deleting the old ones failed
runEnsureDeleteConfigMap_IgnoresError(r) ==
    /\ pc[r] = "ensureDeleteConfigMap"
    /\ \E ok \in BOOLEAN :
         /\ Logged(r, "ensureDeleteConfigMap", jobTaskSpec[r].Namespace, ok)
         /\ configMaps' \in AfterDelete(configMaps, ok)
    /\ pc' = [pc EXCEPT ![r] = "createJobConfigMap"]
    /\ UNCHANGED <<cpc, job, jobTaskSpec, kubeclient, outputs, workloads, globalContext>>

\* run, lines 178-183: ensureDeleteConfigMap
runEnsureDeleteConfigMap(r) ==
    /\ pc[r] = "ensureDeleteConfigMap"
    /\ \E ok \in BOOLEAN :
         /\ Logged(r, "ensureDeleteConfigMap", jobTaskSpec[r].Namespace, ok)
         /\ configMaps' \in AfterDelete(configMaps, ok)
         /\ IF ok
            THEN /\ pc' = [pc EXCEPT ![r] = "createJobConfigMap"]
                 /\ job' = job
            ELSE /\ \E e \in ErrTexts : job' = [job EXCEPT ![r] = Fail(@, e)]
                 /\ Returned(r)
    /\ UNCHANGED <<cpc, jobTaskSpec, kubeclient, outputs, workloads, globalContext>>

\* run, lines 185-194: createJobConfigMap
runCreateJobConfigMap(r) ==
    /\ pc[r] = "createJobConfigMap"
    /\ \E ok \in BOOLEAN :
         /\ Logged(r, "createJobConfigMap", jobTaskSpec[r].Namespace, ok)
         /\ IF ok
            THEN /\ configMaps' = configMaps \cup {Own(r)}
                 /\ pc' = [pc EXCEPT ![r] = "buildJob"]
                 /\ job' = job
            ELSE /\ configMaps' = configMaps
                 /\ \E e \in ErrTexts :
                      job' = [job EXCEPT ![r] = Fail(@, Sprintf("createJobConfigMap error", e))]
                 /\ Returned(r)
    /\ UNCHANGED <<cpc, jobTaskSpec, kubeclient, outputs, workloads, globalContext>>

\* variant: run does not return when buildJob fails
runBuildJob_NoReturn(r) ==
    /\ pc[r] = "buildJob"
    /\ \E ok \in BOOLEAN :
         /\ Logged(r, "buildJob", jobTaskSpec[r].Namespace, ok)
         /\ IF ok
            THEN job' = job
            ELSE \E e \in ErrTexts :
                      job' = [job EXCEPT ![r] = Fail(@, Sprintf("create job context error", e))]
    /\ pc' = [pc EXCEPT ![r] = "ensureDeleteJob"]
    /\ UNCHANGED <<cpc, jobTaskSpec, kubeclient, outputs, configMaps, workloads, globalContext>>

\* run, lines 197-211: buildJob
runBuildJob(r) ==
    /\ pc[r] = "buildJob"
    /\ \E ok \in BOOLEAN :
         /\ Logged(r, "buildJob", jobTaskSpec[r].Namespace, ok)
         /\ IF ok
            THEN /\ pc' = [pc EXCEPT ![r] = "ensureDeleteJob"]
                 /\ job' = job
            ELSE /\ \E e \in ErrTexts :
                      job' = [job EXCEPT ![r] = Fail(@, Sprintf("create job context error", e))]
                 /\ Returned(r)
    /\ UNCHANGED <<cpc, jobTaskSpec, kubeclient, outputs, configMaps, workloads, globalContext>>

\* run, lines 213-219: ensureDeleteJob
runEnsureDeleteJob(r) ==
    /\ pc[r] = "ensureDeleteJob"
    /\ \E ok \in BOOLEAN :
         /\ Logged(r, "ensureDeleteJob", jobTaskSpec[r].Namespace, ok)
         /\ workloads' \in AfterDelete(workloads, ok)
         /\ IF ok
            THEN /\ pc' = [pc EXCEPT ![r] = "CreateJob"]
                 /\ job' = job
            ELSE /\ \E e \in ErrTexts :
                      job' = [job EXCEPT ![r] = Fail(@, Sprintf("delete job error", e))]
                 /\ Returned(r)
    /\ UNCHANGED <<cpc, jobTaskSpec, kubeclient, outputs, configMaps, globalContext>>

\* run, lines 230-238: updater.CreateJob
runCreateJob(r) ==
    /\ pc[r] = "CreateJob"
    /\ \E ok \in BOOLEAN :
         /\ Logged(r, "CreateJob", jobTaskSpec[r].Namespace, ok)
         /\ IF ok
            THEN /\ workloads' = workloads \cup {Own(r)}
                 /\ pc' = [pc EXCEPT ![r] = "wait"]
                 /\ job' = job
            ELSE /\ workloads' = workloads
                 /\ \E e \in ErrTexts :
                      job' = [job EXCEPT ![r] = Fail(@, Sprintf("create job error", e))]
                 /\ Returned(r)
    /\ UNCHANGED <<cpc, jobTaskSpec, kubeclient, outputs, configMaps, globalContext>>

\* wait: c.job.Status = waitJobEndWithFile(...)
wait(r) ==
    /\ pc[r] = "wait"
    /\ \E status \in WaitOutcomes :
         /\ Logged(r, "waitJobEndWithFile", jobTaskSpec[r].Namespace, TRUE)
         /\ job' = [job EXCEPT ![r].Status = status]
    /\ pc' = [pc EXCEPT ![r] = "getJobOutput"]
    /\ UNCHANGED <<cpc, jobTaskSpec, kubeclient, outputs, configMaps, workloads, globalContext>>

\* variant: a failure to read the outputs marks the job Failed
completeGetJobOutput_FailsJob(r) ==
    /\ pc[r] = "getJobOutput"
    /\ \E ok \in BOOLEAN, outs \in OutputLists :
         /\ Logged(r, "getJobOutput", jobTaskSpec[r].Namespace, ok)
         /\ outputs' = [outputs EXCEPT ![r] = outs]
         /\ IF ok
            THEN job' = job
            ELSE \E e \in ErrTexts : job' = [job EXCEPT ![r] = Fail(@, e)]
         /\ globalContext' = WriteOutputs(globalContext, job[r].Name, outs)
    /\ pc' = [pc EXCEPT ![r] = "saveContainerLog"]
    /\ UNCHANGED <<cpc, jobTaskSpec, kubeclient, configMaps, workloads>>

\* complete, lines 247-276: the cleanup is deferred; getJobOutput; every
\* output returned is written to the Variable Context
completeGetJobOutput(r) ==
    /\ pc[r] = "getJobOutput"
    /\ \E ok \in BOOLEAN, outs \in OutputLists :
         /\ Logged(r, "getJobOutput", jobTaskSpec[r].Namespace, ok)
         /\ outputs' = [outputs EXCEPT ![r] = outs]
         /\ IF ok
            THEN job' = job
            ELSE \E e \in ErrTexts : job' = [job EXCEPT ![r].Error = e]
         /\ globalContext' = WriteOutputs(globalContext, job[r].Name, outs)
    /\ pc' = [pc EXCEPT ![r] = "saveContainerLog"]
    /\ UNCHANGED <<cpc, jobTaskSpec, kubeclient, configMaps, workloads>>

\* variant: a log-shipping failure marks the job Failed
completeSaveContainerLog_FailsJob(r) ==
    /\ pc[r] = "saveContainerLog"
    /\ \E ok \in BOOLEAN :
         /\ Logged(r, "saveContainerLog", jobTaskSpec[r].Namespace, ok)
         /\ IF ok
            THEN /\ pc' = [pc EXCEPT ![r] = "SummarizeSteps"]
                 /\ UNCHANGED <<job, cpc>>
            ELSE /\ \E e \in ErrTexts : job' = [job EXCEPT ![r] = Fail(@, e)]
                 /\ Returned(r)
                 /\ ScheduleCleanup(r)
    /\ UNCHANGED <<jobTaskSpec, kubeclient, outputs, configMaps, workloads, globalContext>>

\* complete, lines 278-282: saveContainerLog; complete returns when it fails
completeSaveContainerLog(r) ==
    /\ pc[r] = "saveContainerLog"
    /\ \E ok \in BOOLEAN :
         /\ Logged(r, "saveContainerLog", jobTaskSpec[r].Namespace, ok)
         /\ IF ok
            THEN /\ pc' = [pc EXCEPT ![r] = "SummarizeSteps"]
                 /\ UNCHANGED <<job, cpc>>
            ELSE /\ \E e \in ErrTexts : job' = [job EXCEPT ![r].Error = e]
                 /\ Returned(r)
                 /\ ScheduleCleanup(r)
    /\ UNCHANGED <<jobTaskSpec, kubeclient, outputs, configMaps, workloads, globalContext>>

\* complete, lines 283-288: stepcontroller.SummarizeSteps, then complete
\* returns and its deferred func starts the cleanup goroutine
completeSummarizeSteps(r) ==
    /\ pc[r] = "SummarizeSteps"
    /\ \E ok \in BOOLEAN :
         /\ Logged(r, "SummarizeSteps", jobTaskSpec[r].Namespace, ok)
         /\ IF ok
            THEN job' = job
            ELSE \E e \in ErrTexts : job' = [job EXCEPT ![r].Error = e]
    /\ Returned(r)
    /\ ScheduleCleanup(r)
    /\ UNCHANGED <<jobTaskSpec, kubeclient, outputs, configMaps, workloads, globalContext>>

(***************************************************************************)
(* The cleanup goroutine started by the deferred func of complete.         *)
(***************************************************************************)
\* variant: the goroutine gives up when the workload deletion fails
cleanupEnsureDeleteJob_ReturnsOnError(r) ==
    /\ cpc[r] = "ensureDeleteJob"
    /\ \E ok \in BOOLEAN :
         /\ Logged(r, "cleanup.ensureDeleteJob", jobTaskSpec[r].Namespace, ok)
         /\ workloads' \in AfterDelete(workloads, ok)
         /\ cpc' = [cpc EXCEPT ![r] = IF ok THEN "ensureDeleteConfigMap" ELSE "done"]
    /\ UNCHANGED <<pc, job, jobTaskSpec, kubeclient, outputs, configMaps, globalContext>>

\* variant: the outputs are read and written by the cleanup goroutine,
\* before it deletes the workload
cleanupEnsureDeleteJob_WritesOutputs(r) ==
    /\ cpc[r] = "ensureDeleteJob"
    /\ \E ok \in BOOLEAN :
         /\ Logged(r, "cleanup.ensureDeleteJob", jobTaskSpec[r].Namespace, ok)
         /\ workloads' \in AfterDelete(workloads, ok)
    /\ \E outs \in OutputLists : globalContext' = WriteOutputs(globalContext, job[r].Name, outs)
    /\ cpc' = [cpc EXCEPT ![r] = "ensureDeleteConfigMap"]
    /\ UNCHANGED <<pc, job, jobTaskSpec, kubeclient, outputs, configMaps>>

\* lines 257-259: ensureDeleteJob; an error is logged
cleanupEnsureDeleteJob(r) ==
    /\ cpc[r] = "ensureDeleteJob"
    /\ \E ok \in BOOLEAN :
         /\ Logged(r, "cleanup.ensureDeleteJob", jobTaskSpec[r].Namespace, ok)
         /\ workloads' \in AfterDelete(workloads, ok)
    /\ cpc' = [cpc EXCEPT ![r] = "ensureDeleteConfigMap"]
    /\ UNCHANGED <<pc, job, jobTaskSpec, kubeclient, outputs, configMaps, globalContext>>

\* lines 260-262: ensureDeleteConfigMap; an error is logged
cleanupEnsureDeleteConfigMap(r) ==
    /\ cpc[r] = "ensureDeleteConfigMap"
    /\ \E ok \in BOOLEAN :
         /\ Logged(r, "cleanup.ensureDeleteConfigMap", jobTaskSpec[r].Namespace, ok)
         /\ configMaps' \in AfterDelete(configMaps, ok)
    /\ cpc' = [cpc EXCEPT ![r] = "done"]
    /\ UNCHANGED <<pc, job, jobTaskSpec, kubeclient, outputs, workloads, globalContext>>

\* the task is restarted: the job is run again, with the same label set,
\* once the earlier Run has returned
Restart ==
    /\ pc["first"] = "returned"
    /\ pc["later"] = "idle"
    /\ pc' = [pc EXCEPT !["later"] = "prepare"]
    /\ UNCHANGED <<cpc, job, jobTaskSpec, kubeclient, outputs, configMaps, workloads,
                   globalContext, calls>>

RunStep(r) ==
    \/ prepare(r)
    \/ runGetClients(r)
    \/ runGetBestHost(r)
    \/ runRewriteDockerHost(r)
    \/ runMarshal(r)
    \/ runEnsureDeleteConfigMap(r)
    \/ runCreateJobConfigMap(r)
    \/ runBuildJob(r)
    \/ runEnsureDeleteJob(r)
    \/ runCreateJob(r)
    \/ wait(r)
    \/ completeGetJobOutput(r)
    \/ completeSaveContainerLog(r)
    \/ completeSummarizeSteps(r)

CleanupStep(r) ==
    \/ cleanupEnsureDeleteJob(r)
    \/ cleanupEnsureDeleteConfigMap(r)

\* what no step of the job controller touches
Elsewhere ==
    UNCHANGED <<workflowCtx, jobCtx, counter, clock, store, call, cloned, approval, ingresses>>

\* one execution of the job
Next ==
    \/ prepare("first") /\ Elsewhere
    \/ runGetClients("first") /\ Elsewhere
    \/ runGetBestHost("first") /\ Elsewhere
    \/ runRewriteDockerHost("first") /\ Elsewhere
    \/ runMarshal("first") /\ Elsewhere
    \/ runEnsureDeleteConfigMap("first") /\ Elsewhere
    \/ runCreateJobConfigMap("first") /\ Elsewhere
    \/ runBuildJob("first") /\ Elsewhere
    \/ runEnsureDeleteJob("first") /\ Elsewhere
    \/ runCreateJob("first") /\ Elsewhere
    \/ wait("first") /\ Elsewhere
    \/ completeGetJobOutput("first") /\ Elsewhere
    \/ completeSaveContainerLog("first") /\ Elsewhere
    \/ completeSummarizeSteps("first") /\ Elsewhere
    \/ cleanupEnsureDeleteJob("first") /\ Elsewhere
    \/ cleanupEnsureDeleteConfigMap("first") /\ Elsewhere

Spec == Init /\ [][Next]_vars

\* every call of the controller returns and the Go scheduler runs every
\* goroutine that can run
FairSpec ==
    /\ Spec
    /\ WF_vars(RunStep("first") /\ Elsewhere)
    /\ WF_vars(CleanupStep("first") /\ Elsewhere)

\* the job declares no outputs, so none is read
NoOutputs == \A r \in Runs : outputs[r] = <<>>

\* the job executed, and executed again after a restart of the task, with
\* the cleanup goroutine of each Run running beside the other Run
RestartNext ==
    \/ Restart /\ Elsewhere
    \/ \E r \in Runs : prepare(r) /\ NoOutputs' /\ Elsewhere
    \/ \E r \in Runs : runGetClients(r) /\ NoOutputs' /\ Elsewhere
    \/ \E r \in Runs : runGetBestHost(r) /\ NoOutputs' /\ Elsewhere
    \/ \E r \in Runs : runRewriteDockerHost(r) /\ NoOutputs' /\ Elsewhere
    \/ \E r \in Runs : runMarshal(r) /\ NoOutputs' /\ Elsewhere
    \/ \E r \in Runs : runEnsureDeleteConfigMap(r) /\ NoOutputs' /\ Elsewhere
    \/ \E r \in Runs : runCreateJobConfigMap(r) /\ NoOutputs' /\ Elsewhere
    \/ \E r \in Runs : runBuildJob(r) /\ NoOutputs' /\ Elsewhere
    \/ \E r \in Runs : runEnsureDeleteJob(r) /\ NoOutputs' /\ Elsewhere
    \/ \E r \in Runs : runCreateJob(r) /\ NoOutputs' /\ Elsewhere
    \/ \E r \in Runs : wait(r) /\ NoOutputs' /\ Elsewhere
    \/ \E r \in Runs : completeGetJobOutput(r) /\ NoOutputs' /\ Elsewhere
    \/ \E r \in Runs : completeSaveContainerLog(r) /\ NoOutputs' /\ Elsewhere
    \/ \E r \in Runs : completeSummarizeSteps(r) /\ NoOutputs' /\ Elsewhere
    \/ \E r \in Runs : cleanupEnsureDeleteJob(r) /\ NoOutputs' /\ Elsewhere
    \/ \E r \in Runs : cleanupEnsureDeleteConfigMap(r) /\ NoOutputs' /\ Elsewhere

\* one job of one task, on a cluster with nothing left from earlier tasks
RestartInit ==
    /\ Init
    /\ jobTaskSpec["first"].Timeout = 30
    /\ jobTaskSpec["first"].ResourceRequest = "high"
    /\ jobTaskSpec["first"].ClusterID = LocalClusterID
    /\ globalContext = EmptyContext
    /\ configMaps = {}
    /\ workloads = {}

RestartSpec == RestartInit /\ [][RestartNext]_vars

(***************************************************************************)
(* One execution of a job whose properties may come with a namespace       *)
(* already set, for every cluster id, in a namespace with nothing left     *)
(* from earlier tasks.                                                     *)
(***************************************************************************)
NamespaceInputs == {"", "custom"}

NamespaceInit ==
    /\ pc = [r \in Runs |-> IF r = "first" THEN "prepare" ELSE "idle"]
    /\ cpc = [r \in Runs |-> "none"]
    /\ \E name \in JobNames :
         job = [r \in Runs |-> [Name |-> name, Status |-> StatusRunning, Error |-> "", EndTime |-> 0]]
    /\ globalContext = EmptyContext
    /\ \E cl \in ClusterInputs, ns \in NamespaceInputs :
         jobTaskSpec = [r \in Runs |->
            [Timeout |-> 30, ResourceRequest |-> "high", ClusterID |-> cl, Namespace |-> ns,
             DockerHost |-> <<>>]]
    /\ kubeclient = [r \in Runs |-> "nil"]
    /\ outputs = [r \in Runs |-> <<>>]
    /\ configMaps = {}
    /\ workloads = {}
    /\ calls = [r \in Runs |-> <<>>]
    /\ NoBuild
    /\ NoTasks
    /\ NoRequests

NamespaceSpec == NamespaceInit /\ [][Next]_vars

(***************************************************************************)
(* The docker host step of run on its own: a Run that has resolved the     *)
(* cluster and been given a docker host by the selector, for every host    *)
(* string; the job of the later Run keeps the properties as they were.     *)
(***************************************************************************)
HostInit ==
    /\ pc = [r \in Runs |-> IF r = "first" THEN "rewriteDockerHost" ELSE "idle"]
    /\ cpc = [r \in Runs |-> "none"]
    /\ \E name \in JobNames :
         job = [r \in Runs |-> [Name |-> name, Status |-> StatusRunning, Error |-> "", EndTime |-> 0]]
    /\ globalContext = EmptyContext
    /\ \E cl \in {LocalClusterID, "remote"}, h \in HostStrings :
         LET ns == IF cl = LocalClusterID THEN ProcessNamespace ELSE AttachedClusterNamespace
         IN  /\ jobTaskSpec = [r \in Runs |->
                    [Timeout |-> DefaultTimeout, ResourceRequest |-> MinRequest, ClusterID |-> cl,
                     Namespace |-> IF r = "first" THEN ns ELSE "", DockerHost |-> h]]
             /\ kubeclient = [r \in Runs |-> IF r = "first" THEN cl ELSE "nil"]
             /\ calls = [r \in Runs |->
                    IF r = "later" THEN <<>>
                    ELSE IF cl = LocalClusterID THEN <<Call("PrepareSteps", "", TRUE)>>
                    ELSE <<Call("PrepareSteps", "", TRUE), Call("GetK8sClients", ns, TRUE)>>]
    /\ outputs = [r \in Runs |-> <<>>]
    /\ configMaps = {}
    /\ workloads = {}
    /\ NoBuild
    /\ NoTasks
    /\ NoRequests

HostNext == runRewriteDockerHost("first") /\ Elsewhere

HostSpec == HostInit /\ [][HostNext]_vars

(***************************************************************************)
(* prepare on its own, for every kind of timeout, resource request and     *)
(* cluster id a job can be given; the job of the later Run keeps the       *)
(* properties as they were given.                                          *)
(***************************************************************************)
PrepareTimeouts == {-1, 0, 30, 600}
PrepareRequests == {"", MinRequest, "high"}

PrepareInit ==
    /\ pc = [r \in Runs |-> IF r = "first" THEN "prepare" ELSE "idle"]
    /\ cpc = [r \in Runs |-> "none"]
    /\ \E name \in JobNames :
         job = [r \in Runs |-> [Name |-> name, Status |-> StatusRunning, Error |-> "", EndTime |-> 0]]
    /\ globalContext = EmptyContext
    /\ \E t \in PrepareTimeouts, rq \in PrepareRequests, cl \in ClusterInputs :
         jobTaskSpec = [r \in Runs |->
            [Timeout |-> t, ResourceRequest |-> rq, ClusterID |-> cl, Namespace |-> "",
             DockerHost |-> <<>>]]
    /\ kubeclient = [r \in Runs |-> "nil"]
    /\ outputs = [r \in Runs |-> <<>>]
    /\ configMaps = {}
    /\ workloads = {}
    /\ calls = [r \in Runs |-> <<>>]
    /\ NoBuild
    /\ NoTasks
    /\ NoRequests

PrepareNext == prepare("first") /\ Elsewhere

PrepareSpec == PrepareInit /\ [][PrepareNext]_vars

(***************************************************************************)
(* BuildJobExcutorContext, which run calls for the configmap: applied to   *)
(* the properties, outputs and task context of a job about to be           *)
(* marshalled.                                                             *)
(***************************************************************************)
EnvInputs == [Key : {"A", "B"}, Value : {"1"}, IsCredential : BOOLEAN]
StepInputs == {<<>>, <<"shell">>}
PathInputs == {"", "/usr/local/bin"}
WorkflowCtxInputs == [WorkflowName : {"wf"}, Workspace : {"/workspace"}, TaskID : {1, 2}]

\* strings.Join([]string{a, b}, sep)
Join(a, b, sep) == a \o sep \o b

\* variant: the continue after the credential branch is missing
RECURSIVE EnvLoop_NoContinue(_, _, _)
EnvLoop_NoContinue(envs, envVars, secretEnvVars) ==
    IF envs = <<>> THEN [Envs |-> envVars, SecretEnvs |-> secretEnvVars]
    ELSE LET env == Head(envs)
             kv == Join(env.Key, env.Value, "=")
         IN  IF env.IsCredential
             THEN EnvLoop_NoContinue(Tail(envs), Append(envVars, kv), Append(secretEnvVars, kv))
             ELSE EnvLoop_NoContinue(Tail(envs), Append(envVars, kv), secretEnvVars)

\* for _, env := range jobTaskSpec.Properties.Envs { ... }
RECURSIVE EnvLoop(_, _, _)
EnvLoop(envs, envVars, secretEnvVars) ==
    IF envs = <<>> THEN [Envs |-> envVars, SecretEnvs |-> secretEnvVars]
    ELSE LET env == Head(envs)
             kv == Join(env.Key, env.Value, "=")
         IN  IF env.IsCredential
             THEN EnvLoop(Tail(envs), envVars, Append(secretEnvVars, kv))
             ELSE EnvLoop(Tail(envs), Append(envVars, kv), secretEnvVars)

\* for _, output := range job.Outputs { outputs = append(outputs, output.Name) }
RECURSIVE OutputLoop(_, _)
OutputLoop(declared, names) ==
    IF declared = <<>> THEN names
    ELSE OutputLoop(Tail(declared), Append(names, Head(declared).Name))

BuildJobExcutorContext(spec, j, wctx) ==
    LET split == EnvLoop(spec.Envs, <<>>, <<>>)
    IN  [Name |-> j.Name,
         Envs |-> split.Envs,
         SecretEnvs |-> split.SecretEnvs,
         WorkflowName |-> wctx.WorkflowName,
         Workspace |-> wctx.Workspace,
         TaskID |-> wctx.TaskID,
         Outputs |-> OutputLoop(j.Outputs, <<>>),
         Steps |-> spec.Steps,
         Paths |-> spec.Paths]

ContextInit ==
    /\ pc = [r \in Runs |-> IF r = "first" THEN "marshal" ELSE "idle"]
    /\ cpc = [r \in Runs |-> "none"]
    /\ \E name \in JobNames, declared \in SeqsUpTo(OutputNames, MaxOutputs) :
         job = [r \in Runs |->
            [Name |-> name, Status |-> StatusRunning, Error |-> "", EndTime |-> 0,
             Outputs |-> [i \in DOMAIN declared |-> [Name |-> declared[i], Description |-> ""]]]]
    /\ globalContext = EmptyContext
    /\ \E envs \in SeqsUpTo(EnvInputs, MaxEnvs), steps \in StepInputs, paths \in PathInputs :
         jobTaskSpec = [r \in Runs |->
            [Timeout |-> DefaultTimeout, ResourceRequest |-> MinRequest,
             ClusterID |-> LocalClusterID,
             Namespace |-> IF r = "first" THEN ProcessNamespace ELSE "",
             DockerHost |-> IF r = "first"
                            THEN <<"tcp://dind-0", ".", "dind", ".", ProcessNamespace, ":2375">>
                            ELSE <<>>,
             Envs |-> envs, Steps |-> steps, Paths |-> paths]]
    /\ kubeclient = [r \in Runs |-> IF r = "first" THEN "local" ELSE "nil"]
    /\ calls = [r \in Runs |-> IF r = "first" THEN <<Call("PrepareSteps", "", TRUE)>> ELSE <<>>]
    /\ outputs = [r \in Runs |-> <<>>]
    /\ configMaps = {}
    /\ workloads = {}
    /\ workflowCtx \in WorkflowCtxInputs
    /\ jobCtx = Nil
    /\ NoTasks
    /\ NoRequests

\* run, line 163: the job context that is marshalled into the configmap
runBuildJobExcutorContext(r) ==
    /\ pc[r] = "marshal"
    /\ jobCtx = Nil
    /\ jobCtx' = BuildJobExcutorContext(jobTaskSpec[r], job[r], workflowCtx)
    /\ UNCHANGED <<ctlVars, workflowCtx, taskVars, requestVars>>

ContextNext == runBuildJobExcutorContext("first")

ContextSpec == ContextInit /\ [][ContextNext]_vars

(***************************************************************************)
(* The task materializer: CreateWorkflowTaskV4 turns a workflow document   *)
(* into a persisted task, CloneWorkflowTaskV4 reads the arguments of a     *)
(* persisted task back. A call is modelled as a sequence of steps, one per *)
(* call that leaves the function and one for the loop over the stages.     *)
(***************************************************************************)
JobZadigBuild == "zadig-build"
JobFreestyle == "freestyle"
StatusCreated == "created"
ErrCreateTask == "ErrCreateTask"
ErrGetCounter == "ErrGetCounter"
ErrGetTask == "ErrGetTask"
\* whatever error LintWorkflowV4 returns
ErrLint == "ErrLint"

\* the concurrent callers of CreateWorkflowTaskV4
Callers == {"a", "b"}

\* the jobs a stage can name: of a type with repositories to prepare, of a
\* type without, or skipped
JobKinds ==
    {[JobType |-> JobZadigBuild, Skipped |-> FALSE],
     [JobType |-> JobFreestyle, Skipped |-> FALSE],
     [JobType |-> "plugin", Skipped |-> FALSE],
     [JobType |-> JobFreestyle, Skipped |-> TRUE]}

\* the workflow document with the given jobs in the given stages, as the
\* caller passes it: fixed-value marks in place, nothing rendered yet, no
\* repository looked up
WorkflowOf(shape) ==
    [Name |-> "wf", Marks |-> TRUE, Rendered |-> 0,
     Stages |-> [i \in DOMAIN shape |->
        [Name |-> <<"stage", i>>,
         Jobs |-> [j \in DOMAIN shape[i] |->
            [Name |-> <<"job", i, j>>, JobType |-> shape[i][j].JobType,
             Skipped |-> shape[i][j].Skipped, Repos |-> FALSE]]]]]

\* the ways to put at most n jobs into at most k stages
RECURSIVE Shapes(_, _)
Shapes(k, n) ==
    IF k = 0 THEN {<<>>}
    ELSE {<<>>} \cup
         UNION {{<<first>> \o rest : rest \in Shapes(k - 1, n - Len(first))} :
                first \in SeqsUpTo(JobKinds, n)}

WorkflowInputs == {WorkflowOf(shape) : shape \in Shapes(MaxStages, MaxJobs)}

\* &commonmodels.WorkflowTask{}
EmptyTask ==
    [TaskID |-> 0, CreateTime |-> 0, WorkflowName |-> "", Stages |-> <<>>, Status |-> "",
     OriginWorkflowArgs |-> Nil, WorkflowArgs |-> Nil]

\* a call of CreateWorkflowTaskV4 with workflow w, at its first step; given
\* keeps the document as it was passed
NewCall(w) ==
    [pc |-> "LintWorkflowV4", workflow |-> w, given |-> w, nextTaskID |-> 0,
     resp |-> [WorkflowName |-> w.Name, TaskID |-> 0], err |-> "",
     workflowTask |-> EmptyTask, notified |-> <<>>]

\* commonmodels.IToi(before, after): after becomes a deep copy of before
IToi(before) == before

\* jobctl.ToJobs: the job tasks a job is converted to, one per service for
\* a build job, one otherwise
ToJobs(item) ==
    IF item.JobType = JobZadigBuild
    THEN <<[Name |-> <<item.Name, 1>>, JobType |-> item.JobType, From |-> item.Name],
           [Name |-> <<item.Name, 2>>, JobType |-> item.JobType, From |-> item.Name]>>
    ELSE <<[Name |-> <<item.Name, 1>>, JobType |-> item.JobType, From |-> item.Name]>>

\* the call of the stage loop that fails, if any
NoFailure == [at |-> <<>>, in |-> "none"]
FailPoints(w) ==
    {NoFailure} \cup
    UNION {{[at |-> w.Stages[i].Jobs[j].Name, in |-> f] :
                j \in DOMAIN w.Stages[i].Jobs, f \in {"setRepos", "ToJobs"}} :
           i \in DOMAIN w.Stages}

\* variant: a skipped job is converted like every other job
RECURSIVE JobLoop_KeepsSkipped(_, _, _, _)
JobLoop_KeepsSkipped(jobs, k, fail, acc) ==
    IF k > Len(jobs) THEN acc
    ELSE LET item == jobs[k]
             hasRepos == item.JobType \in {JobZadigBuild, JobFreestyle}
             prepared == IF hasRepos THEN [item EXCEPT !.Repos = TRUE] ELSE item
             acc1 == [acc EXCEPT !.Jobs[k] = prepared]
         IN  IF hasRepos /\ fail = [at |-> item.Name, in |-> "setRepos"]
             THEN [acc EXCEPT !.Failed = TRUE]
             ELSE IF fail = [at |-> item.Name, in |-> "ToJobs"]
             THEN [acc1 EXCEPT !.Failed = TRUE]
             ELSE JobLoop_KeepsSkipped(jobs, k + 1, fail,
                                       [acc1 EXCEPT !.Tasks = @ \o ToJobs(prepared)])

\* for _, job := range stage.Jobs { ... }, lines 176-200: acc.Jobs are the
\* jobs of the stage, changed in place, acc.Tasks is stageTask.Jobs
RECURSIVE JobLoop(_, _, _, _)
JobLoop(jobs, k, fail, acc) ==
    IF k > Len(jobs) THEN acc
    ELSE LET item == jobs[k]
             hasRepos == item.JobType \in {JobZadigBuild, JobFreestyle}
             prepared == IF hasRepos THEN [item EXCEPT !.Repos = TRUE] ELSE item
             acc1 == [acc EXCEPT !.Jobs[k] = prepared]
         IN  IF item.Skipped
             THEN JobLoop(jobs, k + 1, fail, acc)
             ELSE IF hasRepos /\ fail = [at |-> item.Name, in |-> "setRepos"]
             THEN [acc EXCEPT !.Failed = TRUE]
             ELSE IF fail = [at |-> item.Name, in |-> "ToJobs"]
             THEN [acc1 EXCEPT !.Failed = TRUE]
             ELSE JobLoop(jobs, k + 1, fail, [acc1 EXCEPT !.Tasks = @ \o ToJobs(prepared)])

\* for _, stage := range workflow.Stages { ... }, lines 170-204: acc.Stages
\* are the stages of the workflow, changed in place, acc.Tasks is
\* workflowTask.Stages
RECURSIVE StageLoop(_, _, _, _)
StageLoop(stages, i, fail, acc) ==
    IF i > Len(stages) THEN acc
    ELSE LET r == JobLoop(stages[i].Jobs, 1, fail,
                          [Jobs |-> stages[i].Jobs, Tasks |-> <<>>, Failed |-> FALSE])
             acc1 == [acc EXCEPT !.Stages[i].Jobs = r.Jobs]
         IN  IF r.Failed
             THEN [acc1 EXCEPT !.Failed = TRUE]
             ELSE StageLoop(stages, i + 1, fail,
                            IF Len(r.Tasks) > 0
                            THEN [acc1 EXCEPT !.Tasks =
                                    Append(@, [Name |-> stages[i].Name, Jobs |-> r.Tasks])]
                            ELSE acc1)

\* workflowTaskLint returns nil
workflowTaskLint(task) ==
    /\ Len(task.Stages) > 0
    /\ \A i \in DOMAIN task.Stages : Len(task.Stages[i].Jobs) > 0

\* return resp, err
Return(c, e) == [c EXCEPT !.pc = "returned", !.err = e]

\* the job controller and the context builder are not involved
NoJob == UNCHANGED <<ctlVars, buildVars, requestVars>>

\* lines 133-135: LintWorkflowV4
createLintWorkflowV4(c) ==
    /\ call[c].pc = "LintWorkflowV4"
    /\ \E ok \in BOOLEAN :
         call' = [call EXCEPT ![c] = IF ok THEN [@ EXCEPT !.pc = "IToi"] ELSE Return(@, ErrLint)]
    /\ UNCHANGED <<counter, clock, store, cloned>>
    /\ NoJob

\* variant: the arguments are kept once the marks are removed and the
\* variables rendered
createIToi_Late(c) ==
    \/ /\ call[c].pc = "IToi"
       /\ call' = [call EXCEPT ![c].pc = "GetNextSeq"]
       /\ UNCHANGED <<counter, clock, store, cloned>>
       /\ NoJob
    \/ /\ call[c].pc = "newTask"
       /\ call[c].workflowTask.OriginWorkflowArgs = Nil
       /\ call' = [call EXCEPT ![c].workflowTask.OriginWorkflowArgs = IToi(call[c].workflow)]
       /\ UNCHANGED <<counter, clock, store, cloned>>
       /\ NoJob

\* lines 137-143: the workflow as passed is copied into the task
createIToi(c) ==
    /\ call[c].pc = "IToi"
    /\ \E ok \in BOOLEAN :
         call' = [call EXCEPT ![c] =
            IF ok
            THEN [@ EXCEPT !.pc = "GetNextSeq",
                           !.workflowTask.OriginWorkflowArgs = IToi(call[c].workflow)]
            ELSE Return(@, ErrCreateTask)]
    /\ UNCHANGED <<counter, clock, store, cloned>>
    /\ NoJob

\* variant: the id taken from the counter is not put into the response
createGetNextSeq_NoRespID(c) ==
    /\ call[c].pc = "GetNextSeq"
    /\ \E ok \in BOOLEAN :
         IF ok
         THEN /\ counter' = counter + 1
              /\ call' = [call EXCEPT ![c].pc = "RemoveFixedValueMarks",
                                       ![c].nextTaskID = counter + 1]
         ELSE /\ counter' = counter
              /\ call' = [call EXCEPT ![c] = Return(@, ErrGetCounter)]
    /\ UNCHANGED <<clock, store, cloned>>
    /\ NoJob

\* lines 144-149: the next value of the counter of the workflow, taken
\* atomically
createGetNextSeq(c) ==
    /\ call[c].pc = "GetNextSeq"
    /\ \E ok \in BOOLEAN :
         IF ok
         THEN /\ counter' = counter + 1
              /\ call' = [call EXCEPT ![c].pc = "RemoveFixedValueMarks",
                                       ![c].nextTaskID = counter + 1,
                                       ![c].resp.TaskID = counter + 1]
         ELSE /\ counter' = counter
              /\ call' = [call EXCEPT ![c] = Return(@, ErrGetCounter)]
    /\ UNCHANGED <<clock, store, cloned>>
    /\ NoJob

\* lines 151-154: jobctl.RemoveFixedValueMarks(workflow), in place
createRemoveFixedValueMarks(c) ==
    /\ call[c].pc = "RemoveFixedValueMarks"
    /\ \E ok \in BOOLEAN :
         call' = [call EXCEPT ![c] =
            IF ok
            THEN [@ EXCEPT !.pc = "RenderGlobalVariables", !.workflow.Marks = FALSE]
            ELSE Return(@, ErrCreateTask)]
    /\ UNCHANGED <<counter, clock, store, cloned>>
    /\ NoJob

\* lines 155-158: jobctl.RenderGlobalVariables(workflow, nextTaskID, user),
\* in place
createRenderGlobalVariables(c) ==
    /\ call[c].pc = "RenderGlobalVariables"
    /\ \E ok \in BOOLEAN :
         call' = [call EXCEPT ![c] =
            IF ok
            THEN [@ EXCEPT !.pc = "newTask", !.workflow.Rendered = call[c].nextTaskID]
            ELSE Return(@, ErrCreateTask)]
    /\ UNCHANGED <<counter, clock, store, cloned>>
    /\ NoJob

\* lines 160-168: the fields of the task, CreateTime = time.Now().Unix()
createNewTask(c) ==
    /\ call[c].pc = "newTask"
    /\ call' = [call EXCEPT ![c].pc = "stages",
                             ![c].workflowTask.TaskID = call[c].nextTaskID,
                             ![c].workflowTask.CreateTime = clock,
                             ![c].workflowTask.WorkflowName = call[c].workflow.Name]
    /\ UNCHANGED <<counter, clock, store, cloned>>
    /\ NoJob

\* lines 170-204: the stages of the task, from the jobs that are not skipped
createStages(c) ==
    /\ call[c].pc = "stages"
    /\ \E fail \in FailPoints(call[c].workflow) :
         LET r == StageLoop(call[c].workflow.Stages, 1, fail,
                            [Stages |-> call[c].workflow.Stages, Tasks |-> <<>>, Failed |-> FALSE])
         IN  call' = [call EXCEPT ![c] =
                IF r.Failed
                THEN Return([@ EXCEPT !.workflow.Stages = r.Stages], ErrCreateTask)
                ELSE [@ EXCEPT !.pc = "workflowTaskLint",
                               !.workflow.Stages = r.Stages,
                               !.workflowTask.Stages = r.Tasks]]
    /\ UNCHANGED <<counter, clock, store, cloned>>
    /\ NoJob

\* lines 206-211: workflowTaskLint, then WorkflowArgs and Status
createWorkflowTaskLint(c) ==
    /\ call[c].pc = "workflowTaskLint"
    /\ call' = [call EXCEPT ![c] =
            IF workflowTaskLint(call[c].workflowTask)
            THEN [@ EXCEPT !.pc = "CreateTask",
                           !.workflowTask.WorkflowArgs = call[c].workflow,
                           !.workflowTask.Status = StatusCreated]
            ELSE Return(@, ErrCreateTask)]
    /\ UNCHANGED <<counter, clock, store, cloned>>
    /\ NoJob

\* variant: the task is written although CreateTask returns an error
createCreateTask_WritesOnError(c) ==
    /\ call[c].pc = "CreateTask"
    /\ store' = Append(store, call[c].workflowTask)
    /\ \E ok \in BOOLEAN :
         call' = [call EXCEPT ![c] =
            IF ok THEN [@ EXCEPT !.pc = "UpdateWebhookComment"] ELSE Return(@, ErrCreateTask)]
    /\ UNCHANGED <<counter, clock, cloned>>
    /\ NoJob

\* lines 213-216: workflowcontroller.CreateTask persists the task
createCreateTask(c) ==
    /\ call[c].pc = "CreateTask"
    /\ \E ok \in BOOLEAN :
         IF ok
         THEN /\ store' = Append(store, call[c].workflowTask)
              /\ call' = [call EXCEPT ![c].pc = "UpdateWebhookComment"]
         ELSE /\ store' = store
              /\ call' = [call EXCEPT ![c] = Return(@, ErrCreateTask)]
    /\ UNCHANGED <<counter, clock, cloned>>
    /\ NoJob

\* variant: a failed comment update ends the call with an error
createUpdateWebhookComment_Fatal(c) ==
    /\ call[c].pc = "UpdateWebhookComment"
    /\ \E ok \in BOOLEAN :
         call' = [call EXCEPT ![c] =
            IF ok
            THEN [@ EXCEPT !.pc = "UpdateGitCheck",
                           !.notified = Append(@, [op |-> "UpdateWebhookComment", ok |-> ok])]
            ELSE Return([@ EXCEPT !.notified = Append(@, [op |-> "UpdateWebhookComment", ok |-> ok])],
                        ErrCreateTask)]
    /\ UNCHANGED <<counter, clock, store, cloned>>
    /\ NoJob

\* lines 218-220: UpdateWebhookCommentForWorkflowV4, an error is logged
createUpdateWebhookComment(c) ==
    /\ call[c].pc = "UpdateWebhookComment"
    /\ \E ok \in BOOLEAN :
         call' = [call EXCEPT ![c].pc = "UpdateGitCheck",
                              ![c].notified = Append(@, [op |-> "UpdateWebhookComment", ok |-> ok])]
    /\ UNCHANGED <<counter, clock, store, cloned>>
    /\ NoJob

\* lines 221-225: UpdateGitCheckForWorkflowV4, an error is logged; return
\* resp, nil
createUpdateGitCheck(c) ==
    /\ call[c].pc = "UpdateGitCheck"
    /\ \E ok \in BOOLEAN :
         call' = [call EXCEPT ![c] =
            Return([@ EXCEPT !.notified = Append(@, [op |-> "UpdateGitCheck", ok |-> ok])], "")]
    /\ UNCHANGED <<counter, clock, store, cloned>>
    /\ NoJob

\* CloneWorkflowTaskV4(workflowName, taskID): the arguments of the task
\* found in the store, ErrGetTask when Find returns an error
CloneWorkflowTaskV4(taskID) ==
    /\ \/ \E i \in DOMAIN store :
            /\ store[i].TaskID = taskID
            /\ cloned' = [TaskID |-> taskID, Args |-> store[i].OriginWorkflowArgs, err |-> ""]
       \/ cloned' = [TaskID |-> taskID, Args |-> Nil, err |-> ErrGetTask]
    /\ UNCHANGED <<counter, clock, store, call>>
    /\ NoJob

\* a second passes
Tick ==
    /\ clock < MaxClock
    /\ clock' = clock + 1
    /\ UNCHANGED <<counter, store, call, cloned>>
    /\ NoJob

\* no job is being run
CtlIdle ==
    /\ pc = [r \in Runs |-> "idle"]
    /\ cpc = [r \in Runs |-> "none"]
    /\ job = [r \in Runs |-> [Name |-> "", Status |-> "", Error |-> "", EndTime |-> 0]]
    /\ jobTaskSpec = [r \in Runs |->
            [Timeout |-> 0, ResourceRequest |-> "", ClusterID |-> "", Namespace |-> "",
             DockerHost |-> <<>>]]
    /\ kubeclient = [r \in Runs |-> "nil"]
    /\ outputs = [r \in Runs |-> <<>>]
    /\ configMaps = {}
    /\ workloads = {}
    /\ globalContext = EmptyContext
    /\ calls = [r \in Runs |-> <<>>]
    /\ NoBuild

\* one call of CreateWorkflowTaskV4, for every workflow document, and
\* calls of CloneWorkflowTaskV4
CreateInit ==
    /\ CtlIdle
    /\ counter = 0
    /\ clock = 1
    /\ store = <<>>
    /\ cloned = Nil
    /\ NoRequests
    /\ \E w \in WorkflowInputs :
         call = [c \in Callers |-> IF c = "a" THEN NewCall(w) ELSE [NewCall(w) EXCEPT !.pc = "idle"]]

CreateNext ==
    \/ createLintWorkflowV4("a")
    \/ createIToi("a")
    \/ createGetNextSeq("a")
    \/ createRemoveFixedValueMarks("a")
    \/ createRenderGlobalVariables("a")
    \/ createNewTask("a")
    \/ createStages("a")
    \/ createWorkflowTaskLint("a")
    \/ createCreateTask("a")
    \/ createUpdateWebhookComment("a")
    \/ createUpdateGitCheck("a")
    \/ (store # <<>> /\ cloned = Nil /\ \E id \in 1..(counter + 1) : CloneWorkflowTaskV4(id))

CreateSpec == CreateInit /\ [][CreateNext]_vars

\* two concurrent calls of CreateWorkflowTaskV4 for the same workflow, one
\* stage with one freestyle job, while the clock advances
ConcurrentInit ==
    /\ CtlIdle
    /\ counter = 0
    /\ clock = 0
    /\ store = <<>>
    /\ cloned = Nil
    /\ NoRequests
    /\ call = [c \in Callers |->
            NewCall(WorkflowOf(<<<<[JobType |-> JobFreestyle, Skipped |-> FALSE]>>>>))]

ConcurrentNext ==
    \/ Tick
    \/ \E c \in Callers : createLintWorkflowV4(c)
    \/ \E c \in Callers : createIToi(c)
    \/ \E c \in Callers : createGetNextSeq(c)
    \/ \E c \in Callers : createRemoveFixedValueMarks(c)
    \/ \E c \in Callers : createRenderGlobalVariables(c)
    \/ \E c \in Callers : createNewTask(c)
    \/ \E c \in Callers : createStages(c)
    \/ \E c \in Callers : createWorkflowTaskLint(c)
    \/ \E c \in Callers : createCreateTask(c)
    \/ \E c \in Callers : createUpdateWebhookComment(c)
    \/ \E c \in Callers : createUpdateGitCheck(c)

ConcurrentSpec == ConcurrentInit /\ [][ConcurrentNext]_vars

\* two concurrent calls of CreateWorkflowTaskV4 for the same workflow name,
\* each with a document of its own: one job to run, or one skipped job
CounterWorkflows ==
    {WorkflowOf(<<<<[JobType |-> JobFreestyle, Skipped |-> FALSE]>>>>),
     WorkflowOf(<<<<[JobType |-> JobFreestyle, Skipped |-> TRUE]>>>>)}

CounterInit ==
    /\ CtlIdle
    /\ counter = 0
    /\ clock = 0
    /\ store = <<>>
    /\ cloned = Nil
    /\ NoRequests
    /\ \E wa \in CounterWorkflows, wb \in CounterWorkflows :
         call = [c \in Callers |-> IF c = "a" THEN NewCall(wa) ELSE NewCall(wb)]

CounterSpec == CounterInit /\ [][ConcurrentNext]_vars

(***************************************************************************)
(* ApproveStage (workflow_task_v4.go, lines 300-311).                      *)
(***************************************************************************)
ErrApproveTask == "ErrApproveTask"

\* a nil error, and an error of the e package with a description or with
\* the error it wraps
NilError == [code |-> "", desc |-> <<>>, err |-> ""]

AddDesc(code, desc) == [code |-> code, desc |-> desc, err |-> ""]

AddErr(code, err) == [code |-> code, desc |-> <<>>, err |-> err]

\* the arguments of a call
ApproveInputs ==
    [workflowName : {"", "wf"}, stageName : {"", "deploy"}, userName : {"", "alice"},
     userID : {"", "u1"}, comment : {"", "lgtm"}, taskID : {0, 1}, approve : BOOLEAN]

\* variant: a task id of 0 is let through
approveValidate_IgnoresTaskID ==
    /\ approval.pc = "validate"
    /\ approval' =
         IF approval.args.workflowName = "" \/ approval.args.stageName = ""
         THEN [approval EXCEPT
                 !.pc = "returned",
                 !.err = AddDesc(ErrApproveTask,
                                 <<approval.args.workflowName, approval.args.taskID,
                                   approval.args.stageName>>)]
         ELSE [approval EXCEPT !.pc = "ApproveStage"]
    /\ UNCHANGED <<ctlVars, buildVars, taskVars, ingresses>>

\* lines 301-305: the target of the approval must be named
approveValidate ==
    /\ approval.pc = "validate"
    /\ approval' =
         IF \/ approval.args.workflowName = ""
            \/ approval.args.stageName = ""
            \/ approval.args.taskID = 0
         THEN [approval EXCEPT
                 !.pc = "returned",
                 !.err = AddDesc(ErrApproveTask,
                                 <<approval.args.workflowName, approval.args.taskID,
                                   approval.args.stageName>>)]
         ELSE [approval EXCEPT !.pc = "ApproveStage"]
    /\ UNCHANGED <<ctlVars, buildVars, taskVars, ingresses>>

\* lines 306-310: workflowcontroller.ApproveStage with the arguments given;
\* its error is wrapped
approveController ==
    /\ approval.pc = "ApproveStage"
    /\ \E e \in {""} \cup ErrTexts :
         approval' = [approval EXCEPT
            !.pc = "returned",
            !.invoked = Append(@, [args |-> approval.args, err |-> e]),
            !.err = IF e = "" THEN NilError ELSE AddErr(ErrApproveTask, e)]
    /\ UNCHANGED <<ctlVars, buildVars, taskVars, ingresses>>

ApproveInit ==
    /\ CtlIdle
    /\ NoTasks
    /\ ingresses = Nil
    /\ \E args \in ApproveInputs :
         approval = [pc |-> "validate", args |-> args, invoked |-> <<>>, err |-> NilError]

ApproveNext ==
    \/ approveValidate
    \/ approveController

ApproveSpec == ApproveInit /\ [][ApproveNext]_vars

(***************************************************************************)
(* ListIngressesFormat (ingress.go, lines 118-144).                        *)
(***************************************************************************)
ExtensionsV1beta1 == [Group |-> "extensions", Kind |-> "Ingress", Version |-> "v1beta1"]

NetworkingV1 == [Group |-> "networking.k8s.io", Kind |-> "Ingress", Version |-> "v1"]

IngressGVKs == {ExtensionsV1beta1, NetworkingV1}

IngressNames == {"web", "api"}

\* the ingresses of one API version the cache holds for the namespace
IngressLists == UNION {[1..n -> IngressNames] : n \in 0..MaxIngresses}

\* lines 119-137: the two lists, the version chosen by lessThan122, and
\* ListResourceInCache with the unstructured list; a nil slice is the empty
\* sequence
listIngressesInCache ==
    /\ ingresses.pc = "ListResourceInCache"
    /\ LET gvk == IF ingresses.lessThan122 THEN ExtensionsV1beta1 ELSE NetworkingV1
       IN  \E ok \in BOOLEAN :
             ingresses' =
                IF ok
                THEN [ingresses EXCEPT !.pc = "collect", !.gvk = gvk,
                                       !.u = ingresses.cache[gvk]]
                ELSE [ingresses EXCEPT !.pc = "returned", !.gvk = gvk,
                                       !.res = <<>>, !.err = "err"]
    /\ UNCHANGED <<ctlVars, buildVars, taskVars, approval>>

\* lines 138-143: one entry of the result for every item of l
listIngressesCollect ==
    /\ ingresses.pc = "collect"
    /\ ingresses' = [ingresses EXCEPT
            !.pc = "returned",
            !.res = [i \in DOMAIN ingresses.l |-> ingresses.l[i]]]
    /\ UNCHANGED <<ctlVars, buildVars, taskVars, approval>>

IngressInit ==
    /\ CtlIdle
    /\ NoTasks
    /\ approval = Nil
    /\ \E cache \in [IngressGVKs -> IngressLists], lessThan122 \in BOOLEAN :
         ingresses = [pc |-> "ListResourceInCache", cache |-> cache, lessThan122 |-> lessThan122,
                      gvk |-> Nil, l |-> <<>>, u |-> <<>>, res |-> <<>>, err |-> ""]

IngressNext ==
    \/ listIngressesInCache
    \/ listIngressesCollect

IngressSpec == IngressInit /\ [][IngressNext]_vars

(***************************************************************************)
(* What the calls of a Run say.                                            *)
(***************************************************************************)
Called(r, op) == \E i \in DOMAIN calls[r] : calls[r][i].op = op

CalledWith(r, op, ok) == \E i \in DOMAIN calls[r] : calls[r][i].op = op /\ calls[r][i].ok = ok

DeleteOps == {"ensureDeleteConfigMap", "ensureDeleteJob",
              "cleanup.ensureDeleteJob", "cleanup.ensureDeleteConfigMap"}

DeletesSucceeded(r) == \A i \in DOMAIN calls[r] : calls[r][i].op \in DeleteOps => calls[r][i].ok

\* the cleanup scheduled by the Run, if any, has finished
CleanupFinished(r) == cpc[r] \in {"none", "done"}

\* every call named before in the Run's calls precedes position i
PrecededBy(r, i, op, ok) == \E j \in 1..(i - 1) : calls[r][j].op = op /\ calls[r][j].ok = ok

(***************************************************************************)
(* C1: once a Run has left the job in a terminal status and its cleanup    *)
(* has finished, and no delete call failed, no configmap and no workload   *)
(* with the job's label set remains; stated here for the resources the Run *)
(* itself created, which the claim covers in every reading.                *)
(* Violated: run fails after createJobConfigMap succeeded (buildJob,       *)
(* CreateJob), Run returns without complete, the configmap stays.          *)
(***************************************************************************)
C1_NoResourceRemains ==
    \A r \in Runs :
        (/\ pc[r] = "returned"
         /\ job[r].Status \in TerminalStatuses
         /\ CleanupFinished(r)
         /\ DeletesSucceeded(r))
        => (Own(r) \notin configMaps /\ Own(r) \notin workloads)

(***************************************************************************)
(* C2: whenever Run reaches the wait phase, complete runs and the deletion *)
(* of the workload and of the configmap are both invoked, whatever wait    *)
(* returned and whichever call of complete failed; the configmap deletion  *)
(* is invoked also when the workload deletion returned an error.           *)
(***************************************************************************)
C2_CleanupInvoked ==
    (pc["first"] = "wait") ~>
        (/\ Called("first", "getJobOutput")
         /\ Called("first", "cleanup.ensureDeleteJob")
         /\ Called("first", "cleanup.ensureDeleteConfigMap"))

C2_Witness ==
    /\ cpc["first"] = "done"
    /\ job["first"].Status = StatusCancelled
    /\ CalledWith("first", "saveContainerLog", FALSE)
    /\ CalledWith("first", "cleanup.ensureDeleteJob", FALSE)
    /\ Called("first", "cleanup.ensureDeleteConfigMap")

C4_CleanupSparesLaterRun ==
    [][cpc'["first"] # cpc["first"] /\ cpc["first"] # "none" =>
          /\ Own("later") \in configMaps => Own("later") \in configMaps'
          /\ Own("later") \in workloads => Own("later") \in workloads']_vars

(***************************************************************************)
(* C5: when step preparation fails, the job is Failed with a non-empty     *)
(* error and Run has returned without run or wait: no cluster client is    *)
(* resolved and PrepareSteps is the only call the Run made, so it created  *)
(* and deleted nothing, and no cleanup is scheduled.                       *)
(***************************************************************************)
PrepareFailed(r) == CalledWith(r, "PrepareSteps", FALSE)

C5_PrepareFailureStops ==
    PrepareFailed("first") =>
        /\ pc["first"] = "returned"
        /\ job["first"].Status = StatusFailed
        /\ job["first"].Error # ""
        /\ kubeclient["first"] = "nil"
        /\ Len(calls["first"]) = 1
        /\ cpc["first"] = "none"

\* prepare failed although stale resources exist: they are left alone
C5_Witness ==
    /\ PrepareFailed("first")
    /\ pc["first"] = "returned"
    /\ configMaps # {}
    /\ workloads # {}

(***************************************************************************)
(* C6: when a step of the run phase fails (client resolution, context      *)
(* serialization, configmap delete or create, workload build, delete or    *)
(* create), the job is Failed with a non-empty error, the failed call is   *)
(* the last call of the Run (no later create, no wait) and Run returned.   *)
(***************************************************************************)
RunOps == {"GetK8sClients", "yaml.Marshal", "ensureDeleteConfigMap", "createJobConfigMap",
           "buildJob", "ensureDeleteJob", "CreateJob"}

C6_RunFailureStops ==
    \A i \in DOMAIN calls["first"] :
        (calls["first"][i].op \in RunOps /\ ~calls["first"][i].ok) =>
            /\ i = Len(calls["first"])
            /\ pc["first"] = "returned"
            /\ job["first"].Status = StatusFailed
            /\ job["first"].Error # ""

\* the workload could not be built after the configmap was created
C6_Witness ==
    /\ CalledWith("first", "buildJob", FALSE)
    /\ CalledWith("first", "createJobConfigMap", TRUE)
    /\ pc["first"] = "returned"

(***************************************************************************)
(* C7: once complete has read the outputs of job J, the Variable Context   *)
(* maps the key workflow.J.O to V for every output (O, V) read, whatever   *)
(* status wait returned; the step writes no other key, and no other step   *)
(* of the controller writes the Variable Context.                          *)
(***************************************************************************)
OutputKeys(r) == {<<"workflow", job[r].Name, outputs[r][i].Name>> : i \in DOMAIN outputs[r]}

OutputsWritten(r) ==
    \A i \in DOMAIN outputs[r] :
        LET key == <<"workflow", job[r].Name, outputs[r][i].Name>> IN
        key \in DOMAIN globalContext /\ globalContext[key] = outputs[r][i].Value

C8_WritesBeforeReturn ==
    [][pc["first"] = "returned" => globalContext' = globalContext]_vars

\* the cleanup has run after outputs were written
C8_Witness ==
    /\ cpc["first"] = "done"
    /\ outputs["first"] # <<>>
    /\ OutputsWritten("first")

(***************************************************************************)
(* C9: complete never changes the job's status: through every step of      *)
(* complete, whichever of them fails, the status stays what wait set.      *)
(***************************************************************************)
CompleteSteps == {"getJobOutput", "saveContainerLog", "SummarizeSteps"}

C9_CompleteKeepsStatus ==
    [][pc["first"] \in CompleteSteps => job'["first"].Status = job["first"].Status]_vars

\* reading the outputs and shipping the logs both failed; the job is Passed
C9_Witness ==
    /\ pc["first"] = "returned"
    /\ CalledWith("first", "getJobOutput", FALSE)
    /\ CalledWith("first", "saveContainerLog", FALSE)
    /\ job["first"].Status = StatusPassed

(***************************************************************************)
(* C10: SummarizeSteps is invoked in every execution of complete, whether  *)
(* or not shipping the container logs failed.                              *)
(* Violated: complete returns when saveContainerLog fails.                 *)
(***************************************************************************)
C10_SummarizeAlwaysInvoked ==
    (pc["first"] = "returned" /\ Called("first", "getJobOutput")) =>
        Called("first", "SummarizeSteps")

(***************************************************************************)
(* C11: wherever the controller leaves the job in a terminal status        *)
(* (Failed from prepare, Failed from a step of run, or the outcome of      *)
(* wait), the end time of the job is set; the end time is missing only     *)
(* while the job is not terminal.                                          *)
(* Violated: only the failure of GetK8sClients stamps EndTime; prepare,    *)
(* the other steps of run, and wait set the status and leave EndTime 0.    *)
(***************************************************************************)
C11_TerminalHasEndTime ==
    \A r \in Runs : job[r].Status \in TerminalStatuses => job[r].EndTime # 0

(***************************************************************************)
(* C12: after the docker-host step of run the docker host of the job is    *)
(* the selected host with "<svc>.dind" rewritten to "<svc>.dind.<target    *)
(* namespace>" (koderover-agent for a remote cluster, the process          *)
(* namespace for the local one); when the selected host already contains   *)
(* the process namespace, that substring is replaced by the target         *)
(* namespace, so that for the local cluster the host is kept as it is and  *)
(* never emptied.                                                          *)
(* Violated: for the local cluster a selected host that contains the       *)
(* process namespace leaves the docker host empty.                         *)
(***************************************************************************)
C12_TargetNamespace(clusterID) ==
    IF clusterID = LocalClusterID THEN <<ProcessNamespace>> ELSE <<KoderoverAgentNamespace>>

C12_Rewritten(host, clusterID) ==
    IF Contains(host, <<ProcessNamespace>>)
    THEN Replace(host, <<ProcessNamespace>>, C12_TargetNamespace(clusterID))
    ELSE Replace(host, <<".", "dind">>, <<".", "dind", ".">> \o C12_TargetNamespace(clusterID))

C12_DockerHostRewritten ==
    pc["first"] = "marshal" =>
        jobTaskSpec["first"].DockerHost =
            C12_Rewritten(jobTaskSpec["later"].DockerHost, jobTaskSpec["first"].ClusterID)

(***************************************************************************)
(* C13: the docker-host rewrite is idempotent: for every host string and   *)
(* every cluster id, rewriting an already rewritten host returns that host *)
(* unchanged.                                                              *)
(* Violated: a second rewrite appends the namespace once more (remote      *)
(* cluster) or empties the host (local cluster).                           *)
(***************************************************************************)
C13_RewriteIdempotent ==
    pc["first"] = "marshal" =>
        RewriteDockerHost(jobTaskSpec["first"].DockerHost, jobTaskSpec["first"].ClusterID)
            = jobTaskSpec["first"].DockerHost

(***************************************************************************)
(* C14: BuildJobExcutorContext partitions the environment variables of the *)
(* job: every credential one appears once in secret_envs and not in envs,  *)
(* every other one once in envs and not in secret_envs, each as KEY=VALUE  *)
(* and in input order; outputs are the names of the declared outputs in    *)
(* order; workflow name, workspace, task id, steps and paths are carried   *)
(* over unchanged.                                                         *)
(***************************************************************************)
C14_Encoded(envs) == [i \in DOMAIN envs |-> envs[i].Key \o "=" \o envs[i].Value]

C14_IsSecret(env) == env.IsCredential

C14_IsPlain(env) == ~env.IsCredential

C14_ContextPartition ==
    jobCtx # Nil =>
        LET spec == jobTaskSpec["first"]
        IN  /\ jobCtx.SecretEnvs = C14_Encoded(SelectSeq(spec.Envs, C14_IsSecret))
            /\ jobCtx.Envs = C14_Encoded(SelectSeq(spec.Envs, C14_IsPlain))
            /\ Len(jobCtx.Envs) + Len(jobCtx.SecretEnvs) = Len(spec.Envs)
            /\ jobCtx.Outputs = [i \in DOMAIN job["first"].Outputs |-> job["first"].Outputs[i].Name]
            /\ jobCtx.WorkflowName = workflowCtx.WorkflowName
            /\ jobCtx.Workspace = workflowCtx.Workspace
            /\ jobCtx.TaskID = workflowCtx.TaskID
            /\ jobCtx.Steps = spec.Steps
            /\ jobCtx.Paths = spec.Paths

\* a credential between two plain variables, and two declared outputs
C14_Witness ==
    /\ jobCtx # Nil
    /\ Len(jobTaskSpec["first"].Envs) = 3
    /\ ~jobTaskSpec["first"].Envs[1].IsCredential
    /\ jobTaskSpec["first"].Envs[2].IsCredential
    /\ ~jobTaskSpec["first"].Envs[3].IsCredential
    /\ jobCtx.SecretEnvs = <<"B=1">>
    /\ jobCtx.Envs = <<"A=1", "A=1">>
    /\ jobCtx.Outputs = <<"VERSION", "IMAGE">>

(***************************************************************************)
(* C15: after prepare the timeout of the job is 600 if it was zero or      *)
(* negative and unchanged otherwise, the resource request is MinRequest if *)
(* it was empty, and the cluster id is the local cluster id if it was      *)
(* empty; the defaults are applied also when the preparation of the steps  *)
(* then fails.                                                             *)
(***************************************************************************)
C15_DefaultsApplied ==
    pc["first"] # "prepare" =>
        LET given == jobTaskSpec["later"]
            left == jobTaskSpec["first"]
        IN  /\ left.Timeout = IF given.Timeout <= 0 THEN 600 ELSE given.Timeout
            /\ left.ResourceRequest =
                    IF given.ResourceRequest = "" THEN MinRequest ELSE given.ResourceRequest
            /\ left.ClusterID = IF given.ClusterID = "" THEN LocalClusterID ELSE given.ClusterID

\* a job given a negative timeout and neither request nor cluster, whose
\* step preparation failed
C15_Witness ==
    /\ pc["first"] = "returned"
    /\ CalledWith("first", "PrepareSteps", FALSE)
    /\ jobTaskSpec["later"].Timeout = -1
    /\ jobTaskSpec["later"].ResourceRequest = ""
    /\ jobTaskSpec["later"].ClusterID = ""
    /\ jobTaskSpec["first"].Timeout = 600
    /\ jobTaskSpec["first"].ResourceRequest = MinRequest
    /\ jobTaskSpec["first"].ClusterID = LocalClusterID

(***************************************************************************)
(* C16: for any two persisted tasks of the same workflow, under any        *)
(* interleaving of concurrent calls of CreateWorkflowTaskV4, the task ids  *)
(* are distinct and the task with the earlier create time has the smaller  *)
(* task id.                                                                *)
(* Violated: the caller that took the smaller id from the counter stamps   *)
(* its create time after the other caller did.                             *)
(***************************************************************************)
C16_IdsFollowCreateTime ==
    \A i, k \in DOMAIN store :
        i # k =>
            /\ store[i].TaskID # store[k].TaskID
            /\ store[i].CreateTime < store[k].CreateTime => store[i].TaskID < store[k].TaskID

(***************************************************************************)
(* What a call of CreateWorkflowTaskV4 left.                               *)
(***************************************************************************)
\* the places in the store of the tasks with the id the call was given
PersistedBy(c) == {i \in DOMAIN store : store[i].TaskID = call[c].nextTaskID}

\* the call is past a successful CreateTask
PastCreateTask(c) ==
    \/ call[c].pc \in {"UpdateWebhookComment", "UpdateGitCheck"}
    \/ call[c].pc = "returned" /\ call[c].notified # <<>>

NotSkipped(item) == ~item.Skipped

HasNonSkipped(stage) == \E k \in DOMAIN stage.Jobs : ~stage.Jobs[k].Skipped

C18_AllOrNothing ==
    /\ \A c \in Callers :
         call[c].pc = "returned" =>
            IF call[c].err = ""
            THEN /\ Cardinality(PersistedBy(c)) = 1
                 /\ \A i \in PersistedBy(c) : store[i].Status = StatusCreated
                 /\ call[c].resp.TaskID = call[c].nextTaskID
                 /\ call[c].nextTaskID \in 1..counter
            ELSE \A i \in DOMAIN store :
                    /\ store[i].TaskID # call[c].nextTaskID
                    /\ store[i].TaskID # call[c].workflowTask.TaskID
    /\ Len(store) = Cardinality({c \in Callers : PastCreateTask(c)})

\* the call took an id, built and linted the task, and CreateTask failed
C18_Witness ==
    /\ call["a"].pc = "returned"
    /\ call["a"].err = ErrCreateTask
    /\ call["a"].nextTaskID = 1
    /\ call["a"].workflowTask.Status = StatusCreated
    /\ store = <<>>

(***************************************************************************)
(* C19: the stages of a persisted task are exactly the stages of the       *)
(* workflow with at least one job that is not skipped, in declaration      *)
(* order, and the jobs of each are the conversions of its jobs that are    *)
(* not skipped, in declaration order; every persisted task has at least    *)
(* one stage and every stage at least one job; a workflow whose jobs are   *)
(* all skipped is not persisted and the call fails, with ErrCreateTask     *)
(* once it has got past the lint of the workflow and the counter.          *)
(***************************************************************************)
RECURSIVE C19_Flatten(_)
C19_Flatten(seqs) == IF seqs = <<>> THEN <<>> ELSE Head(seqs) \o C19_Flatten(Tail(seqs))

C19_StageTask(stage) ==
    LET kept == SelectSeq(stage.Jobs, NotSkipped)
    IN  [Name |-> stage.Name, Jobs |-> C19_Flatten([k \in DOMAIN kept |-> ToJobs(kept[k])])]

C19_StageTasks(w) ==
    LET kept == SelectSeq(w.Stages, HasNonSkipped)
    IN  [i \in DOMAIN kept |-> C19_StageTask(kept[i])]

C19_AllSkipped(w) == \A i \in DOMAIN w.Stages : ~HasNonSkipped(w.Stages[i])

C20_NotifyNeverFatal ==
    \A c \in Callers :
        PastCreateTask(c) =>
            /\ \A i \in PersistedBy(c) : store[i].Status = StatusCreated
            /\ PersistedBy(c) # {}
            /\ call[c].pc = "returned" =>
                 /\ call[c].err = ""
                 /\ call[c].resp.TaskID = call[c].nextTaskID
                 /\ call[c].resp.TaskID # 0
                 /\ Len(call[c].notified) = 2
                 /\ call[c].notified[1].op = "UpdateWebhookComment"
                 /\ call[c].notified[2].op = "UpdateGitCheck"

\* both notifications failed
C20_Witness ==
    /\ call["a"].pc = "returned"
    /\ call["a"].notified = <<[op |-> "UpdateWebhookComment", ok |-> FALSE],
                               [op |-> "UpdateGitCheck", ok |-> FALSE]>>
    /\ call["a"].err = ""
    /\ Len(store) = 1
    /\ store[1].Status = StatusCreated

(***************************************************************************)
(* C21: the namespace of a job is chosen by its cluster id alone (the      *)
(* process namespace for the local cluster, koderover-agent for any        *)
(* other) and is the same for every cluster operation of the Run: the      *)
(* delete and create of the configmap and of the workload in run, the      *)
(* wait, and the two deletions scheduled by complete.                      *)
(***************************************************************************)
C21_ClusterOps ==
    {"ensureDeleteConfigMap", "createJobConfigMap", "ensureDeleteJob", "CreateJob",
     "waitJobEndWithFile", "cleanup.ensureDeleteJob", "cleanup.ensureDeleteConfigMap"}

C21_NamespaceOf(clusterID) ==
    IF clusterID = LocalClusterID THEN ProcessNamespace ELSE "koderover-agent"

C21_NamespaceByCluster ==
    \A i \in DOMAIN calls["first"] :
        calls["first"][i].op \in C21_ClusterOps =>
            calls["first"][i].ns = C21_NamespaceOf(jobTaskSpec["first"].ClusterID)

\* a job for a remote cluster, given with a namespace of its own, has gone
\* through all seven cluster operations
C21_Witness ==
    /\ cpc["first"] = "done"
    /\ jobTaskSpec["later"].ClusterID = "remote"
    /\ jobTaskSpec["later"].Namespace = "custom"
    /\ \A op \in C21_ClusterOps : Called("first", op)

(***************************************************************************)
(* C22: within one Run the controller writes the status of the job at      *)
(* most once and only to a terminal value (Failed from prepare or from a   *)
(* step of run, otherwise the outcome of wait); a terminal status, once    *)
(* written, is not overwritten or reverted by a later phase.               *)
(***************************************************************************)
\* the calls whose failure makes the controller assign the status
C22_FailingOps ==
    {"PrepareSteps", "GetK8sClients", "yaml.Marshal", "ensureDeleteConfigMap",
     "createJobConfigMap", "buildJob", "ensureDeleteJob", "CreateJob"}

\* the number of assignments to the status the Run has made so far
C22_Writes(r) ==
    Cardinality({i \in DOMAIN calls[r] :
                    \/ calls[r][i].op = "waitJobEndWithFile"
                    \/ calls[r][i].op \in C22_FailingOps /\ ~calls[r][i].ok})

C22_StatusWrittenOnce ==
    [][\A r \in Runs :
          /\ job'[r].Status # job[r].Status =>
                /\ job[r].Status \notin TerminalStatuses
                /\ job'[r].Status \in TerminalStatuses
          /\ C22_Writes(r)' <= 1]_vars

\* wait has ended with a timeout and every step of complete has failed
C22_Witness ==
    /\ pc["first"] = "returned"
    /\ cpc["first"] = "done"
    /\ job["first"].Status = StatusTimeout
    /\ C22_Writes("first") = 1
    /\ CalledWith("first", "getJobOutput", FALSE)
    /\ CalledWith("first", "SummarizeSteps", FALSE)
    /\ CalledWith("first", "cleanup.ensureDeleteJob", FALSE)

(***************************************************************************)
(* C23: a failed CreateWorkflowTaskV4 has advanced the counter of the      *)
(* workflow exactly when it failed after the id was assigned.  A failure   *)
(* of the workflow lint or of the snapshot leaves the counter as it was    *)
(* and returns task id 0; a failure of the mark removal, the rendering,    *)
(* the job preparation, the job conversion, the task lint or the           *)
(* persistence leaves the counter advanced and returns the consumed id in  *)
(* the response.  A consumed id is not used again: the ids of the calls    *)
(* are distinct, and the ids of the persisted tasks are distinct values    *)
(* of the counter (increasing, with gaps where a call failed).             *)
(***************************************************************************)
C23_BeforeID == {"LintWorkflowV4", "IToi"}

C23_AfterID ==
    {"RemoveFixedValueMarks", "RenderGlobalVariables", "stages", "workflowTaskLint", "CreateTask"}

\* the call fails in this step
C23_Fails(c) == call[c].pc # "returned" /\ call'[c].pc = "returned" /\ call'[c].err # ""

\* the ids the calls have consumed so far
C23_Consumed == {call[c].nextTaskID : c \in Callers} \ {0}

C23_NoReuse ==
    /\ C23_Consumed = 1..counter
    /\ \A c, d \in Callers : (c # d /\ call[c].nextTaskID # 0) => call[c].nextTaskID # call[d].nextTaskID
    /\ \A i, k \in DOMAIN store : i # k => store[i].TaskID # store[k].TaskID
    /\ \A i \in DOMAIN store : store[i].TaskID \in C23_Consumed

C24_Unidentified(args) == args.workflowName = "" \/ args.stageName = "" \/ args.taskID = 0

C24_RejectsUnidentified ==
    approval # Nil =>
        /\ Len(approval.invoked) <= 1
        /\ approval.pc = "returned" =>
              IF C24_Unidentified(approval.args)
              THEN /\ approval.err.code = ErrApproveTask
                   /\ approval.invoked = <<>>
              ELSE /\ Len(approval.invoked) = 1
                   /\ approval.invoked[1].args = approval.args
                   /\ approval.err =
                        IF approval.invoked[1].err = ""
                        THEN NilError
                        ELSE AddErr(ErrApproveTask, approval.invoked[1].err)

\* a call that names workflow and stage but has task id 0 has returned
C24_Witness ==
    /\ approval # Nil
    /\ approval.pc = "returned"
    /\ approval.args.workflowName = "wf"
    /\ approval.args.stageName = "deploy"
    /\ approval.args.taskID = 0
    /\ approval.err.code = ErrApproveTask

(***************************************************************************)
(* C25: when the listing from the cache succeeds, ListIngressesFormat      *)
(* returns one entry for every ingress listed in the namespace for the     *)
(* API version lessThan122 selects; when the listing fails it returns a    *)
(* nil result and the error.                                               *)
(* Violated: the result is built from the list l, which the call to the    *)
(* cache never fills; the ingresses are in u.                              *)
(***************************************************************************)
C25_OneEntryPerIngress ==
    (ingresses # Nil /\ ingresses.pc = "returned") =>
        IF ingresses.err = ""
        THEN ingresses.res = ingresses.cache[IF ingresses.lessThan122
                                             THEN ExtensionsV1beta1 ELSE NetworkingV1]
        ELSE ingresses.res = <<>>


=============================================================================
